---- MODULE Spec2Model ----
(***************************************************************************)
(* Sequence-to-sequence model with attention (src/src/model.py): the       *)
(* Encoder, the attention-augmented Decoder and the two decoding           *)
(* strategies of Seq2Seq.forward (teacher forcing and greedy decoding).    *)
(*                                                                         *)
(* Tensors are modelled over the integers.  A tensor of shape (batch, ...) *)
(* is a function over Batch; the step and source axes are sequences; the   *)
(* hidden dimension is 1, so a hidden vector is an integer and an encoder  *)
(* output (2 * hidden_size) is a pair.  The hidden state (h, c) of shape   *)
(* (1, batch, hidden_size) is a function from Batch to records [h, c].     *)
(* The torch layers (Embedding, LSTM, Linear, tanh, softmax, log_softmax,  *)
(* bmm, max) are integer operators over the learned parameters, which are  *)
(* drawn once, in Init, and never change during a forward call.            *)
(***************************************************************************)
EXTENDS Integers, Sequences, FiniteSets, TLC

\* ------------------------------------------------------------ bounds

\* Largest max_len the forward call is given.
MaxLen == 3
\* Largest source sequence length.
MaxSrcLen == 2
\* Largest target sequence length of a teacher-forced call.
MaxTgtLen == 2

\* Rows of a batch (batch_size = 2).
Batch == 1..2
\* Target vocabulary indices (target_vocab_size = 3).
Vocab == 0..2
\* Source vocabulary indices (source_vocab_size = 2).
SrcVocab == 0..1
\* targets=None of Seq2Seq.forward: no tensor.
None == <<>>

\* ------------------------------------------------------------ helpers

Min2(a, b) == IF a <= b THEN a ELSE b
Max2(a, b) == IF a >= b THEN a ELSE b
Clamp(x, lo, hi) == Max2(lo, Min2(hi, x))

RECURSIVE Exp2(_)
\* 2^n for n >= 0: the exponential of softmax and log_softmax, in base 2.
Exp2(n) == IF n <= 0 THEN 1 ELSE 2 * Exp2(n - 1)

RECURSIVE CeilLog2From(_, _)
CeilLog2From(x, k) == IF Exp2(k) >= x THEN k ELSE CeilLog2From(x, k + 1)
\* The least k with 2^k >= x: the logarithm of log_softmax, rounded up.
CeilLog2(x) == CeilLog2From(x, 0)

RECURSIVE SumSeq(_)
SumSeq(s) == IF s = <<>> THEN 0 ELSE Head(s) + SumSeq(Tail(s))

RECURSIVE ProdSeq(_)
ProdSeq(s) == IF s = <<>> THEN 1 ELSE Head(s) * ProdSeq(Tail(s))

RECURSIVE SumOver(_, _)
\* The sum of f over the finite set S of its domain.
SumOver(f, S) ==
    IF S = {} THEN 0
    ELSE LET x == CHOOSE y \in S : TRUE IN f[x] + SumOver(f, S \ {x})

MinOver(f, S) == CHOOSE m \in {f[x] : x \in S} : \A x \in S : m <= f[x]
MaxOver(f, S) == CHOOSE m \in {f[x] : x \in S} : \A x \in S : m >= f[x]

\* ------------------------------------------------------------ torch layers

\* A tensor given by its entries, held as an explicit table: the same
\* function as f, evaluated once.
Tensor(f) == f @@ <<>>

\* torch.tanh: the bounded nonlinearity, range [-1, 1].
Tanh(x) == Clamp(x, -1, 1)

\* Embedding: the row of the table at the token index.
Embedding(table, tok) == table[tok]

\* One step of a single-layer LSTM on input x from state hc = [h, c]: the new
\* cell state is the old one through the forget gate plus the squashed
\* candidate from the input and the old output; the new output is the
\* squashed cell state.  The step output of a single layer is h.
LSTMStep(w, x, hc) ==
    LET c == Clamp(w.f * hc.c + Tanh(w.ih * x + w.hh * hc.h), -2, 2)
    IN  [h |-> Tanh(c), c |-> c]

\* The exponentials of the entries of a matrix m, each relative to the least
\* entry (a softmax does not change when all its inputs are shifted alike).
ExpEntries(m) ==
    LET R  == DOMAIN m
        C  == DOMAIN m[1]
        mn == MinOver(Tensor([rc \in R \X C |-> m[rc[1]][rc[2]]]), R \X C)
    IN  Tensor([r \in R |-> Tensor([c \in C |-> Exp2(m[r][c] - mn)])])

\* The exponentials e, each divided by the sum of the exponentials along dim.
Normalize(e, dim) ==
    LET R == DOMAIN e
        C == DOMAIN e[1]
    IN  Tensor([r \in R |-> Tensor([c \in C |->
            [num |-> e[r][c],
             den |-> IF dim = 1
                     THEN SumOver(Tensor([rr \in R |-> e[rr][c]]), R)
                     ELSE SumOver(Tensor([cc \in C |-> e[r][cc]]), C)]])])

\* softmax(m, dim) of a matrix m (a sequence of rows, each a sequence) per
\* batch item; dim 1 is the row axis and dim 2 the column axis (dim 0 is the
\* batch).  Every entry is the fraction num / den.
Softmax(m, dim) == Normalize(ExpEntries(m), dim)

\* The common denominator of the fractions of ws, and the numerator of their
\* sum over it.
FracSumDen(ws) == ProdSeq(Tensor([j \in DOMAIN ws |-> ws[j].den]))
FracSumNum(ws) ==
    LET D == FracSumDen(ws)
    IN  SumSeq(Tensor([j \in DOMAIN ws |-> ws[j].num * (D \div ws[j].den)]))

\* torch.bmm of a 1 x L row of weights with the L x 2 encoder outputs of one
\* batch item: the weighted sum of the encoder outputs, per component.
Bmm(ws, enc) ==
    LET D == FracSumDen(ws)
        comp(k) == SumSeq(Tensor([j \in DOMAIN ws |->
                       ws[j].num * (D \div ws[j].den) * enc[j][k]])) \div D
    IN  <<comp(1), comp(2)>>

\* log_softmax(x, dim=2) of one logits vector over the vocabulary: every
\* entry less the logarithm of the sum of the exponentials.
LogSoftmax(x) ==
    LET V  == DOMAIN x
        mn == MinOver(x, V)
        lse == mn + CeilLog2(SumOver([v \in V |-> Exp2(x[v] - mn)], V))
    IN  Tensor([v \in V |-> x[v] - lse])

\* tensor.max(dim=2) indices of one vector over the vocabulary: the index of
\* the first maximal value.
ArgMax(x) ==
    LET V == DOMAIN x
        mx == MaxOver(x, V)
    IN  CHOOSE v \in V : x[v] = mx /\ \A u \in V : x[u] = mx => v <= u

\* ------------------------------------------------------------ Attention

\* attn_scores: the hidden vector h of the last layer, projected by
\* attn_layer to twice the hidden size, times every encoder output (bmm with
\* the transposed encoder outputs): a 1 x src_len matrix.
AttnScores(p, last_hidden, encoder_outputs) ==
    LET proj == <<p.attn[1] * last_hidden.h, p.attn[2] * last_hidden.h>>
    IN  << Tensor([j \in DOMAIN encoder_outputs |->
               proj[1] * encoder_outputs[j][1] + proj[2] * encoder_outputs[j][2]]) >>

\* combine_layer on merged = cat(decoder_output, attention_applied), then tanh.
Combine(p, decoder_output, attention_applied) ==
    Tanh(p.combine.w[1] * decoder_output + p.combine.w[2] * attention_applied[1]
         + p.combine.w[3] * attention_applied[2] + p.combine.b)

\* The rest of Attention.forward once the weights are known.
AttentionApplied(p, decoder_output, encoder_outputs, attn_weights) ==
    [output |-> Combine(p, decoder_output, Bmm(attn_weights[1], encoder_outputs)),
     attn_weights |-> attn_weights]

\* Attention.forward on one batch item.  decoder_output: the recurrent
\* layer's step output; last_hidden: the hidden state [h, c]; encoder_outputs:
\* the sequence of (forward, backward) pairs.  Returns the combined
\* representation and the attention weights, a 1 x src_len matrix:
\* attn_weights = softmax(attn_scores, dim=1).
Attention(p, decoder_output, last_hidden, encoder_outputs) ==
    AttentionApplied(p, decoder_output, encoder_outputs,
                     Softmax(AttnScores(p, last_hidden, encoder_outputs), 1))

\* ------------------------------------------------------------ Decoder

\* What one iteration of the loop of Decoder.forward leaves: the attention
\* output as the step output, and the recurrent layer's hidden state.
StepResult(hidden, att) ==
    [step_output |-> att.output, hidden_state |-> hidden,
     attn_weights |-> att.attn_weights]

\* The attention call of the iteration: on the recurrent layer's step output
\* (the h of a single layer) and its updated hidden state.
AttendStep(p, hidden, encoder_outputs) ==
    StepResult(hidden, Attention(p, hidden.h, hidden, encoder_outputs))

\* One iteration of the loop of Decoder.forward on one batch item: the
\* recurrent layer advances by one step on the embedded token, then attention
\* is applied to the step output and the updated hidden state.
DecoderStep(p, embedded, encoder_outputs, hidden_state) ==
    AttendStep(p, LSTMStep(p.dec, embedded, hidden_state), encoder_outputs)

\* outputs.append(step_output), with the iteration's hidden state.
Collect(outputs, r) ==
    [outputs |-> Append(outputs, r.step_output), hidden_state |-> r.hidden_state,
     attn_weights |-> r.attn_weights]

\* A slip of the index: the first position at every step.
StepInputFirst(embedded_inputs, step) == embedded_inputs[1]

\* embedded_inputs[:, step, :]: the embedded token of position step.
StepInput(embedded_inputs, step) == embedded_inputs[step]

RECURSIVE DecoderLoop(_, _, _, _, _)
\* The loop of Decoder.forward from position step on, on one batch item.  st
\* holds the list of step outputs so far, the hidden state threaded through
\* the steps and the weights of the latest attention call.
DecoderLoop(p, embedded_inputs, encoder_outputs, st, step) ==
    IF step > Len(embedded_inputs)
    THEN st
    ELSE DecoderLoop(p, embedded_inputs, encoder_outputs,
                     Collect(st.outputs,
                             DecoderStep(p, StepInput(embedded_inputs, step), encoder_outputs,
                                         st.hidden_state)),
                     step + 1)

\* The output layer: a Linear from the hidden size to the vocabulary.
OutputLayer(p, y) == Tensor([v \in Vocab |-> p.out.w[v] * y + p.out.b[v]])

\* After the loop of Decoder.forward: the concatenated step outputs go
\* through the output layer; the hidden state is the loop's last.
Project(p, r) ==
    [logits |-> Tensor([s \in DOMAIN r.outputs |-> OutputLayer(p, r.outputs[s])]),
     hidden_state |-> r.hidden_state,
     attn_weights |-> r.attn_weights]

\* embedding_layer over a sequence of tokens.
EmbedSeq(table, toks) == Tensor([s \in DOMAIN toks |-> Embedding(table, toks[s])])

\* Decoder.forward on one batch item: inputs is a sequence of tokens (length
\* 1 in greedy decoding, the target length in teacher forcing).  Returns the
\* logits per step and the hidden state after the last step.
DecoderRow(p, inputs, encoder_outputs, hidden_state) ==
    Project(p, DecoderLoop(p, EmbedSeq(p.trg_emb, inputs), encoder_outputs,
                           [outputs |-> <<>>, hidden_state |-> hidden_state,
                            attn_weights |-> <<>>],
                           1))

\* The per-row results as batch tensors.
DecoderBatch(rows) ==
    [logits |-> Tensor([i \in Batch |-> rows[i].logits]),
     hidden_state |-> Tensor([i \in Batch |-> rows[i].hidden_state]),
     attn_weights |-> Tensor([i \in Batch |-> rows[i].attn_weights])]

\* Decoder.forward on the batch: per row the logits, the hidden state after
\* the last step and the attention weights of the last step.
DecoderForward(p, inputs, encoder_outputs, hidden_state) ==
    DecoderBatch(Tensor([i \in Batch |->
        DecoderRow(p, inputs[i], encoder_outputs[i], hidden_state[i])]))

\* torch.cat(list, dim=1) of a non-empty list of (batch, 1, ...) tensors: the
\* (batch, len, ...) tensor.
TorchCat(list) ==
    Tensor([i \in Batch |-> Tensor([s \in DOMAIN list |-> list[s][i]])])

\* ------------------------------------------------------------ Encoder

RECURSIVE LSTMRun(_, _, _)
\* The hidden states of a single-direction LSTM after each element of xs,
\* from state hc.
LSTMRun(w, xs, hc) ==
    IF xs = <<>> THEN <<>>
    ELSE LET n == LSTMStep(w, Head(xs), hc)
         IN  <<n>> \o LSTMRun(w, Tail(xs), n)

Reverse(s) == Tensor([j \in DOMAIN s |-> s[Len(s) + 1 - j]])

\* The bidirectional layer's results: the output at a position is the
\* (forward, backward) pair of outputs; the final hidden and cell states of
\* the two directions are summed (hidden_states[k].sum(0)).
MergeDirections(fwd, bwd) ==
    [encoder_outputs |-> Tensor([j \in DOMAIN fwd |-> <<fwd[j].h, bwd[j].h>>]),
     hidden_states |-> [h |-> fwd[Len(fwd)].h + bwd[1].h,
                        c |-> fwd[Len(fwd)].c + bwd[1].c]]

\* The initial state of a recurrent layer that is given none.
ZeroState == [h |-> 0, c |-> 0]

\* The bidirectional LSTM on the embedded sequence emb.
BiLSTM(p, emb) ==
    MergeDirections(LSTMRun(p.enc_fwd, emb, ZeroState),
                    Reverse(LSTMRun(p.enc_bwd, Reverse(emb), ZeroState)))

\* Encoder.forward on one batch item: embeds the source tokens and runs the
\* bidirectional LSTM.
EncoderRow(p, inputs) == BiLSTM(p, EmbedSeq(p.src_emb, inputs))

\* The per-row results as batch tensors.
EncoderBatch(rows) ==
    [encoder_outputs |-> Tensor([i \in Batch |-> rows[i].encoder_outputs]),
     hidden_states |-> Tensor([i \in Batch |-> rows[i].hidden_states])]

\* Encoder.forward on the batch.
EncoderForward(p, inputs) ==
    EncoderBatch(Tensor([i \in Batch |-> EncoderRow(p, inputs[i])]))

\* ------------------------------------------------------------ state

VARIABLES
    pc,               \* "start", "loop", "break", "done" or "error"
    params,           \* the learned parameters of the layers
    training,         \* self.training
    START_INDEX,      \* self.START_INDEX
    END_INDEX,        \* self.END_INDEX
    inputs,           \* forward's source tokens, per row
    targets,          \* forward's targets, per row, or None
    max_len,          \* forward's max_len
    encoder_outputs,  \* the Encoder's outputs
    encoder_hidden,   \* the Encoder's merged hidden state
    encoder_calls,    \* how many times the Encoder has run
    preds,            \* decode_greedy: per row the seed and the predictions
    scores,           \* decode_greedy: the list of step scores
    hidden_state,     \* decode_greedy: the current hidden state
    iters,            \* decode_greedy: iterations of the for loop started
    calls,            \* every Decoder call so far: its arguments and results
    attn_weights,     \* the weights of the latest Attention call (<<>>: none)
    result            \* what forward returned: [scores, preds] (<<>>: nothing)

vars == <<pc, params, training, START_INDEX, END_INDEX, inputs, targets, max_len,
          encoder_outputs, encoder_hidden, encoder_calls, preds, scores,
          hidden_state, iters, calls, attn_weights, result>>

\* Seq2Seq.__init__ and the arguments of one forward call.
config == <<params, training, START_INDEX, END_INDEX, inputs, targets, max_len>>

\* The learned parameters the model is checked with: the embedding tables, the
\* weights of the three recurrent layers, of the attention projection (no
\* bias), of the combining layer and of the output layer.
ParamSet ==
    {[src_emb |-> [t \in SrcVocab |-> 2 * t - 1],
      enc_fwd |-> [f |-> 1, ih |-> 1, hh |-> 1],
      enc_bwd |-> [f |-> 1, ih |-> 1, hh |-> -1],
      trg_emb |-> [t \in Vocab |-> t - 1],
      dec     |-> [f |-> 1, ih |-> ih, hh |-> -1],
      attn    |-> <<1, -1>>,
      combine |-> [w |-> <<1, 0, 1>>, b |-> 0],
      out     |-> [w |-> [v \in Vocab |-> v - 1],
                   b |-> [v \in Vocab |-> IF v = hot THEN 1 ELSE 0]]]
        : ih \in {-1, 1}, hot \in Vocab}

\* The tensors of shape (batch, len) over the tokens toks.
Tensors(toks, len) == [Batch -> [1..len -> toks]]

\* The source batches: row 1 is any sentence of length 1..MaxSrcLen that
\* starts with token 0, row 2 the same sentence with the two source tokens
\* exchanged.
SourceSet == UNION {{b \in Tensors(SrcVocab, L) :
                        /\ b[1][1] = 0
                        /\ \A j \in 1..L : b[2][j] = 1 - b[1][j]}
                    : L \in 1..MaxSrcLen}

\* The target batches of a teacher-forced call: every row is a sentence of
\* length 1..MaxTgtLen that starts with the start token; row 1 continues with
\* any tokens, row 2 with the same tokens each moved to the next one of the
\* vocabulary.
TargetSet(start) ==
    UNION {{t \in Tensors(Vocab, T) :
               /\ \A i \in Batch : t[i][1] = start
               /\ \A j \in 2..T : t[2][j] = (t[1][j] + 1) % Cardinality(Vocab)}
           : T \in 1..MaxTgtLen}

Init ==
    /\ pc = "start"
    /\ params \in ParamSet
    /\ training \in BOOLEAN
    /\ START_INDEX \in Vocab
    /\ END_INDEX \in Vocab
    /\ inputs \in SourceSet
    /\ targets \in {None} \cup TargetSet(START_INDEX)
    /\ max_len \in (-1)..MaxLen
    /\ encoder_outputs = <<>>
    /\ encoder_hidden = <<>>
    /\ encoder_calls = 0
    /\ preds = <<>>
    /\ scores = <<>>
    /\ hidden_state = <<>>
    /\ iters = 0
    /\ calls = <<>>
    /\ attn_weights = <<>>
    /\ result = <<>>

\* ------------------------------------------------------------ decode_greedy

\* An off-by-one loop bound: range(max_len + 1).
LoopContinuesOneMore(n, bound) == n < bound + 1

\* for _ in range(max_len): whether another iteration starts after n.
LoopContinues(n, bound) == n < bound

\* ((preds == END_INDEX).sum(dim=1) > 0).sum().item() == batch_size
AllFinished(p, end_index) ==
    Cardinality({i \in Batch :
        Cardinality({k \in DOMAIN p[i] : p[i][k] = end_index}) > 0})
    = Cardinality(Batch)

\* The mode test dropped: break whenever all rows are finished.
BreaksInAnyMode(all_finished, is_training) == all_finished

\* The mode test inverted: break only in training mode.
BreaksInTraining(all_finished, is_training) == all_finished /\ is_training

\* if all_finished and not self.training: break
Breaks(all_finished, is_training) == all_finished /\ ~is_training

\* A slip of the start index, narrow(1, 0, size - 1): preds without its last
\* column.
NarrowFromZero(p) ==
    Tensor([i \in Batch |-> Tensor([k \in 1..(Len(p[i]) - 1) |-> p[i][k]])])

\* preds.narrow(1, 1, preds.size(1) - 1): preds without its first column.
Narrow(p) ==
    Tensor([i \in Batch |-> Tensor([k \in 1..(Len(p[i]) - 1) |-> p[i][k + 1]])])

\* The record of one Decoder call.
Call(in, enc, hid, r) ==
    [inputs |-> in, encoder_outputs |-> enc, hidden_in |-> hid,
     logits |-> r.logits, hidden_out |-> r.hidden_state]

\* Lines 111-115 of decode_greedy: the seed column, the empty score list and
\* the Encoder's hidden state as the first hidden state.
GreedySetup(enc) ==
    /\ encoder_outputs' = enc.encoder_outputs
    /\ encoder_hidden' = enc.hidden_states
    /\ hidden_state' = enc.hidden_states
    /\ preds' = Tensor([i \in Batch |-> <<START_INDEX>>])
    /\ scores' = <<>>
    /\ iters' = 0
    /\ pc' = "loop"

\* Seq2Seq.forward with targets None: the Encoder runs, and decode_greedy
\* sets up its loop.
ForwardGreedy ==
    /\ pc = "start"
    /\ targets = None
    /\ GreedySetup(EncoderForward(params, inputs))
    /\ encoder_calls' = encoder_calls + 1
    /\ UNCHANGED <<config, calls, attn_weights, result>>

\* Lines 123-136 of decode_greedy, after the Decoder call on in returned r.
GreedyStepBody(in, r) ==
    LET step_output == Tensor([i \in Batch |-> r.logits[i][Len(r.logits[i])]])
        step_scores == Tensor([i \in Batch |-> LogSoftmax(step_output[i])])
        step_preds  == Tensor([i \in Batch |-> ArgMax(step_scores[i])])
        new_preds   == Tensor([i \in Batch |-> Append(preds[i], step_preds[i])])
        all_finished == AllFinished(new_preds, END_INDEX)
    IN  /\ hidden_state' = r.hidden_state
        /\ preds' = new_preds
        /\ scores' = Append(scores, step_scores)
        /\ calls' = Append(calls, Call(in, encoder_outputs, hidden_state, r))
        /\ attn_weights' = r.attn_weights
        /\ pc' = IF Breaks(all_finished, training) THEN "break" ELSE "loop"

\* A slip of the slice, preds[:, :1]: the first column, the seed.
DecoderInputFirst(p) == Tensor([i \in Batch |-> <<p[i][1]>>])

\* preds[:, -1:], the input of the iteration's Decoder call.
DecoderInput(p) == Tensor([i \in Batch |-> <<p[i][Len(p[i])]>>])

\* One iteration of the loop of decode_greedy (lines 117-136).
GreedyStep ==
    /\ pc = "loop"
    /\ LoopContinues(iters, max_len)
    /\ GreedyStepBody(DecoderInput(preds),
                      DecoderForward(params, DecoderInput(preds), encoder_outputs,
                                     hidden_state))
    /\ iters' = iters + 1
    /\ UNCHANGED <<config, encoder_outputs, encoder_hidden, encoder_calls, result>>

\* torch.cat given an empty list returning an empty tensor instead of raising.
CatAccepts(list) == FALSE

\* torch.cat(scores, 1) raises on an empty list of tensors.
CatRaises(list) == list = <<>>

\* After the loop of decode_greedy (lines 138-142): torch.cat raises on an
\* empty list of scores; otherwise the scores are concatenated, the seed
\* column is dropped from preds, and forward returns both.
GreedyReturn ==
    /\ \/ pc = "break"
       \/ pc = "loop" /\ ~LoopContinues(iters, max_len)
    /\ IF CatRaises(scores)
       THEN pc' = "error" /\ result' = result
       ELSE /\ pc' = "done"
            /\ result' = [scores |-> TorchCat(scores), preds |-> Narrow(preds)]
    /\ UNCHANGED <<config, encoder_outputs, encoder_hidden, encoder_calls, preds,
                   scores, hidden_state, iters, calls, attn_weights>>

\* ------------------------------------------------------------ decode_forced

\* A slip taken over from decode_greedy: only the last step is kept.
ForcedResultLastStep(r) ==
    [scores |-> Tensor([i \in Batch |-> <<LogSoftmax(r.logits[i][Len(r.logits[i])])>>]),
     preds  |-> Tensor([i \in Batch |-> <<ArgMax(r.logits[i][Len(r.logits[i])])>>])]

\* Lines 149-152 of decode_forced, after the Decoder call returned r: the
\* scores are the log_softmax of the logits and the predictions the argmax of
\* the logits.
ForcedResult(r) ==
    [scores |-> Tensor([i \in Batch |->
                    Tensor([s \in DOMAIN r.logits[i] |-> LogSoftmax(r.logits[i][s])])]),
     preds  |-> Tensor([i \in Batch |->
                    Tensor([s \in DOMAIN r.logits[i] |-> ArgMax(r.logits[i][s])])])]

\* decode_forced: one Decoder call on the whole targets.
DecodeForced(p, tgt, encoder_out, hid) ==
    ForcedResult(DecoderForward(p, tgt, encoder_out, hid))

\* What forward leaves after decode_forced on the Encoder's results enc, the
\* Decoder call having returned r.
ForcedReturn(enc, r) ==
    /\ encoder_outputs' = enc.encoder_outputs
    /\ encoder_hidden' = enc.hidden_states
    /\ calls' = Append(calls, Call(targets, enc.encoder_outputs, enc.hidden_states, r))
    /\ attn_weights' = r.attn_weights
    /\ result' = ForcedResult(r)

ForcedDecode(enc) ==
    ForcedReturn(enc, DecoderForward(params, targets, enc.encoder_outputs,
                                     enc.hidden_states))

\* Seq2Seq.forward with targets given: the Encoder runs, decode_forced decodes
\* and forward returns its scores and predictions.
ForwardForced ==
    /\ pc = "start"
    /\ targets # None
    /\ ForcedDecode(EncoderForward(params, inputs))
    /\ encoder_calls' = encoder_calls + 1
    /\ pc' = "done"
    /\ UNCHANGED <<config, preds, scores, hidden_state, iters>>

Next ==
    \/ ForwardGreedy
    \/ GreedyStep
    \/ GreedyReturn
    \/ ForwardForced

Spec == Init /\ [][Next]_vars

\* ------------------------------------------------------------ properties

Greedy == targets = None
Forced == targets # None
Returned == pc = "done"

\* The decoder steps taken so far.
Steps == Len(calls)

\* Row i predicted the end token in one of the first k steps (column 1 of
\* preds is the seed, column j + 1 the prediction of step j).
Emitted(i, k) == \E j \in 1..k : preds[i][j + 1] = END_INDEX
AllEmitted(k) == \A i \in Batch : Emitted(i, k)

\* v is an index of a maximal entry of the vector x.
IsArgMax(x, v) == \A u \in DOMAIN x : x[v] >= x[u]

\* How far a forward call has come: the loop iterations started, plus the
\* position (before the loop, in it, past a break, ended).
Progress ==
    iters + (CASE pc = "start" -> 0 [] pc = "loop" -> 1 [] pc = "break" -> 2
               [] OTHER -> 3)

\* A step of forward can be taken: the call has not begun, or the loop starts
\* another iteration, or the loop is left.
CanStep ==
    \/ pc = "start"
    \/ pc = "loop" /\ LoopContinues(iters, max_len)
    \/ ENABLED GreedyReturn

\* C1: greedy decoding with max_len >= 1 never takes more than max_len
\* decoder steps and always comes to return, in either mode, whatever tokens
\* are predicted: until it has returned a step can be taken, and every step
\* moves the call forward, which max_len + 3 bounds.
C1_GreedyTerminates ==
    /\ [](Greedy /\ max_len >= 1 =>
            /\ Steps <= max_len
            /\ Progress <= max_len + 3
            /\ Returned \/ CanStep)
    /\ [][Greedy /\ max_len >= 1 => Progress' > Progress]_vars

\* C1 witness: an evaluation-mode decode in which no row ever predicts the end
\* token returns after exactly max_len = MaxLen steps.
C1_Witness ==
    /\ Greedy /\ Returned /\ ~training
    /\ max_len = MaxLen /\ Steps = max_len
    /\ \A i \in Batch : ~Emitted(i, Steps)

\* C2: in evaluation mode, once every row has predicted the end token within
\* the first k steps, no step beyond k is taken: no earlier step count had all
\* rows finished, and after a step that finishes all rows the loop is left.
C2_EvalStopsEarly ==
    (Greedy /\ ~training) =>
        /\ \A k \in 1..(Steps - 1) : ~AllEmitted(k)
        /\ (Steps >= 1 /\ AllEmitted(Steps)) => pc \in {"break", "done"}

\* C2 witness: an evaluation-mode decode returns after 2 of 3 steps, the last
\* row having predicted the end token at step 2.
C2_Witness ==
    /\ Greedy /\ Returned /\ ~training
    /\ START_INDEX # END_INDEX
    /\ max_len = 3 /\ Steps = 2
    /\ AllEmitted(2) /\ ~AllEmitted(1)

\* C3: in training mode greedy decoding with max_len >= 1 never breaks, and
\* returns after exactly max_len steps with max_len steps of scores and of
\* predictions in every row.
C3_TrainingRunsFull ==
    (Greedy /\ training /\ max_len >= 1) =>
        /\ pc # "break"
        /\ Returned =>
              /\ Steps = max_len
              /\ \A i \in Batch : /\ Len(result.scores[i]) = max_len
                                  /\ Len(result.preds[i]) = max_len

\* C3 witness: a training-mode decode in which every row predicted the end
\* token at step 1 returns max_len = MaxLen steps.
C3_Witness ==
    /\ Greedy /\ Returned /\ training
    /\ START_INDEX # END_INDEX
    /\ max_len = MaxLen /\ AllEmitted(1)
    /\ Len(result.preds[1]) = MaxLen

\* C4: an evaluation-mode decode that returns fewer than max_len steps has the
\* end token among the returned predictions of every row, for every choice of
\* start_index and end_index.
C4_EarlyStopOnlyWhenAllEmitted ==
    (Greedy /\ ~training /\ Returned /\ Len(result.preds[1]) < max_len) =>
        \A i \in Batch : \E j \in DOMAIN result.preds[i] :
            result.preds[i][j] = END_INDEX

\* C5: after greedy decoding returns, every row has as many predictions as
\* scores as decoder steps were taken, the returned predictions are the
\* predictions of the steps without the seed, and every prediction is an
\* argmax of its score vector.
C5_PredsMatchScores ==
    (Greedy /\ Returned) =>
        \A i \in Batch :
            /\ Len(result.preds[i]) = Steps
            /\ Len(result.scores[i]) = Steps
            /\ \A j \in 1..Steps :
                  /\ result.preds[i][j] = preds[i][j + 1]
                  /\ result.scores[i][j] = scores[j][i]
                  /\ IsArgMax(result.scores[i][j], result.preds[i][j])

\* C5 witness: a decode of MaxLen steps whose first prediction in row 1 is not
\* the start token, and is the only argmax of its scores.
C5_Witness ==
    /\ Greedy /\ Returned /\ Steps = MaxLen
    /\ result.preds[1][1] # START_INDEX
    /\ ~IsArgMax(result.scores[1][1], START_INDEX)

\* C6: for src_len > 1 the attention weights of every batch item sum to 1
\* over the source positions.
C6_WeightsSumToOne ==
    (attn_weights # <<>> /\ Len(inputs[1]) > 1) =>
        \A i \in Batch :
            FracSumNum(attn_weights[i][1]) = FracSumDen(attn_weights[i][1])

\* C7: forward runs the Encoder once; with targets of length T it makes one
\* Decoder call on the whole targets and returns exactly T steps of scores and
\* predictions whatever max_len, the mode and the end token are, and never
\* enters the greedy loop; without targets it decodes greedily, one token per
\* Decoder call and at most max_len calls.
C7_ForwardDispatch ==
    /\ pc # "start" => encoder_calls = 1
    /\ Forced =>
          /\ pc \in {"start", "done"}
          /\ Returned =>
                /\ Steps = 1
                /\ calls[1].inputs = targets
                /\ \A i \in Batch : /\ Len(result.scores[i]) = Len(targets[i])
                                    /\ Len(result.preds[i]) = Len(targets[i])
    /\ Greedy =>
          /\ \A n \in 1..Steps : \A i \in Batch : Len(calls[n].inputs[i]) = 1
          /\ Returned => Steps <= max_len

\* C7 witness: an evaluation-mode teacher-forced call with targets of length
\* 2, every row holding the end token at position 1, and max_len = 1.
C7_Witness ==
    /\ Forced /\ Returned /\ ~training
    /\ Len(targets[1]) = 2 /\ max_len = 1
    /\ \A i \in Batch : targets[i][1] = END_INDEX
    /\ Len(result.preds[1]) = 2

\* C8: in greedy decoding the first Decoder call gets the start token in
\* every row and the Encoder's merged hidden state; every later call gets the
\* token predicted at the step before (the argmax of that step's scores) and
\* the hidden state the Decoder returned at the step before; every call gets
\* the Encoder's outputs.
C8_GreedyThreading ==
    Greedy =>
        \A n \in 1..Steps :
            /\ calls[n].encoder_outputs = encoder_outputs
            /\ calls[n].hidden_in =
                  IF n = 1 THEN encoder_hidden ELSE calls[n - 1].hidden_out
            /\ \A i \in Batch :
                  calls[n].inputs[i] =
                      << IF n = 1 THEN START_INDEX ELSE ArgMax(scores[n - 1][i]) >>

\* C8 witness: a third step is taken in training mode after every row has
\* predicted the end token, fed with a token that is not the start token and a
\* hidden state that is not the Encoder's.
C8_Witness ==
    /\ Greedy /\ training /\ Steps = 3
    /\ START_INDEX # END_INDEX
    /\ AllEmitted(2)
    /\ calls[3].inputs[1] # <<START_INDEX>>
    /\ calls[3].hidden_in # encoder_hidden

\* The logits and hidden state of one single-step Decoder call per position of
\* inputs from position s on, each call given the hidden state the call before
\* returned; acc holds the logits of the positions before s.
RECURSIVE Stepwise(_, _, _, _, _, _)
Stepwise(p, in, enc, hid, s, acc) ==
    IF s > Len(in[1])
    THEN [logits |-> acc, hidden_out |-> hid]
    ELSE LET r == DecoderForward(p, Tensor([i \in Batch |-> <<in[i][s]>>]), enc, hid)
         IN  Stepwise(p, in, enc, r.hidden_state, s + 1,
                      Tensor([i \in Batch |-> acc[i] \o r.logits[i]]))

\* C9: every Decoder call on inputs of length S returned the logits, in order,
\* and the final hidden state of S single-step calls over the same tokens,
\* each given the hidden state returned by the call before.
C9_DecoderIsStepwise ==
    \A n \in 1..Steps :
        LET c == calls[n]
            r == Stepwise(params, c.inputs, c.encoder_outputs, c.hidden_in, 1,
                          Tensor([i \in Batch |-> <<>>]))
        IN  /\ c.logits = r.logits
            /\ c.hidden_out = r.hidden_out

\* C9 witness: a Decoder call on inputs of length 2 whose two steps differ in
\* their logits and whose final hidden state is neither the initial one nor
\* the one after the first step.
C9_Witness ==
    /\ Forced /\ Returned /\ Len(targets[1]) = 2
    /\ calls[1].logits[1][1] # calls[1].logits[1][2]
    /\ calls[1].hidden_out # calls[1].hidden_in
    /\ calls[1].hidden_out #
          DecoderForward(params, Tensor([i \in Batch |-> <<targets[i][1]>>]),
                         calls[1].encoder_outputs, calls[1].hidden_in).hidden_state

\* C10: greedy decoding with max_len <= 0 takes no decoder step and returns
\* nothing: it ends in the error of concatenating an empty list.
C10_NonPositiveMaxLenFails ==
    (Greedy /\ max_len <= 0) =>
        /\ Steps = 0
        /\ result = <<>>
        /\ pc \in {"start", "loop", "error"}
        /\ (pc = "loop" => ENABLED GreedyReturn)

\* C10 witness: an evaluation-mode decode with max_len = 0 has raised.
C10_Witness ==
    /\ Greedy /\ ~training /\ max_len = 0
    /\ pc = "error" /\ Steps = 0

====
